---- MODULE Spec2Model ----
(***************************************************************************)
(* Model of the task store of src/app/src/index.py: the Task record        *)
(* (construct, update, to_dict, from_dict) and the TaskManager (load,      *)
(* add, get, update, delete, list, save) over a JSON backing file.         *)
(*                                                                         *)
(* Python values that may have more than one type in the same slot are     *)
(* tagged records [py |-> <type>, v |-> <payload>].  A datetime is a       *)
(* number of clock ticks; isoformat/fromisoformat convert it to and from   *)
(* its text.  An enum member is its .value; .name is looked up in the      *)
(* table of names and Enum[name] searches that table.                      *)
(***************************************************************************)
EXTENDS Integers, Sequences, FiniteSets, TLC

VARIABLES
    pc,      \* where the process is: "new" (before TaskManager()), "ready",
             \* "crashed" (an exception left TaskManager.__init__), or the
             \* stage of a pure-function check
    clock,   \* datetime.datetime.now()
    uuids,   \* the values uuid.uuid4() has returned so far
    file,    \* the backing file tasks.json
    tasks,   \* TaskManager.tasks: the dict, as its entries in insertion order
    ret      \* the last call: its name, arguments, result and effects

vars == <<pc, clock, uuids, file, tasks, ret>>

----------------------------------------------------------------------------
(* Bounds and program constants *)

\* the clock runs from 1 to MaxClock
MaxClock == 2

\* datetime.datetime.max, the largest datetime
DateTimeMax == 9

\* uuid.uuid4() values, task ids a caller passes explicitly, ids asked for
Uuids == {"u1"}
ExplicitIds == {"k1"}
QueryIds == {"u1", "k1", "zz"}

----------------------------------------------------------------------------
(* Python values *)

None == [py |-> "None"]
Str(s) == [py |-> "str", v |-> s]
DateTime(n) == [py |-> "datetime", v |-> n]
PyList(s) == [py |-> "list", v |-> s]
PriorityMember(n) == [py |-> "Priority", v |-> n]
StatusMember(n) == [py |-> "Status", v |-> n]

\* a call's outcome: a value, or an exception
Ok(v) == [ok |-> TRUE, v |-> v]
Raise(e) == [ok |-> FALSE, exc |-> e]

\* bool(v) of the values the code tests for truth
Truthy(v) ==
    CASE v.py = "None" -> FALSE
      [] v.py = "str" -> v.v # ""
      [] v.py = "list" -> v.v # <<>>
      [] OTHER -> TRUE

\* class Priority(Enum) and class Status(Enum): names by value
PriorityNames == <<"LOW", "MEDIUM", "HIGH", "CRITICAL">>
StatusNames == <<"NOT_STARTED", "IN_PROGRESS", "BLOCKED", "COMPLETED">>
Priorities == DOMAIN PriorityNames
Statuses == DOMAIN StatusNames

\* Priority[name], Status[name]: the member of that name, or KeyError
EnumByName(names, name) ==
    IF \E n \in DOMAIN names : names[n] = name
    THEN Ok(CHOOSE n \in DOMAIN names : names[n] = name)
    ELSE Raise("KeyError")

\* datetime.isoformat() and datetime.fromisoformat(text)
DateTimes == 0..DateTimeMax
IsoText ==
    [n \in DateTimes |->
        IF n = DateTimeMax THEN "9999-12-31T23:59:59.999999"
        ELSE "2024-01-01T00:00:0" \o ToString(n)]
isoformat(n) == IsoText[n]
fromisoformat(s) ==
    IF \E n \in DateTimes : isoformat(n) = s
    THEN Ok(DateTime(CHOOSE n \in DateTimes : isoformat(n) = s))
    ELSE Raise("ValueError")

----------------------------------------------------------------------------
(* class Task *)

\* Task.__init__ at time now; uuid is what uuid.uuid4() returns if called
TaskInit(title, description, priority, due_date, status, tags, task_id, now, uuid) ==
    [id |-> IF Truthy(task_id) THEN task_id.v ELSE uuid,
     title |-> title,
     description |-> description,
     priority |-> priority,
     due_date |-> due_date,
     status |-> status,
     tags |-> IF Truthy(tags) THEN tags.v ELSE <<>>,
     created_at |-> now,
     updated_at |-> now]

\* whether Task.__init__ calls uuid.uuid4()
NeedsUuid(task_id) == ~Truthy(task_id)

\* the parameters of Task.update
UpdateParams == {"title", "description", "priority", "due_date", "status", "tags"}

\* a keyword argument of Task.update, None when not passed
Arg(kwargs, k) == IF k \in DOMAIN kwargs THEN kwargs[k] ELSE None

\* Task.update as it would be with a **kwargs catch-all: unknown keywords
\* are dropped and the known ones applied
TaskUpdateIgnoring(t, kwargs, now) ==
    Ok([t EXCEPT
        !.title = IF Arg(kwargs, "title") # None THEN Arg(kwargs, "title").v ELSE @,
        !.description =
            IF Arg(kwargs, "description") # None THEN Arg(kwargs, "description").v ELSE @,
        !.priority =
            IF Arg(kwargs, "priority") # None THEN Arg(kwargs, "priority").v ELSE @,
        !.due_date = IF Arg(kwargs, "due_date") # None THEN Arg(kwargs, "due_date") ELSE @,
        !.status = IF Arg(kwargs, "status") # None THEN Arg(kwargs, "status").v ELSE @,
        !.tags = IF Arg(kwargs, "tags") # None THEN Arg(kwargs, "tags").v ELSE @,
        !.updated_at = now])

\* Task.update as it would be if it stamped updated_at only when a field
\* was assigned
TaskUpdateStampOnChange(t, kwargs, now) ==
    IF ~(DOMAIN kwargs \subseteq UpdateParams) THEN Raise("TypeError")
    ELSE Ok([t EXCEPT
        !.title = IF Arg(kwargs, "title") # None THEN Arg(kwargs, "title").v ELSE @,
        !.description =
            IF Arg(kwargs, "description") # None THEN Arg(kwargs, "description").v ELSE @,
        !.priority =
            IF Arg(kwargs, "priority") # None THEN Arg(kwargs, "priority").v ELSE @,
        !.due_date = IF Arg(kwargs, "due_date") # None THEN Arg(kwargs, "due_date") ELSE @,
        !.status = IF Arg(kwargs, "status") # None THEN Arg(kwargs, "status").v ELSE @,
        !.tags = IF Arg(kwargs, "tags") # None THEN Arg(kwargs, "tags").v ELSE @,
        !.updated_at = IF \E k \in DOMAIN kwargs : kwargs[k] # None THEN now ELSE @])

\* Task.update(**kwargs) at time now: the task afterwards, or TypeError for
\* a keyword the signature does not have
TaskUpdate(t, kwargs, now) ==
    IF ~(DOMAIN kwargs \subseteq UpdateParams) THEN Raise("TypeError")
    ELSE Ok([t EXCEPT
        !.title = IF Arg(kwargs, "title") # None THEN Arg(kwargs, "title").v ELSE @,
        !.description =
            IF Arg(kwargs, "description") # None THEN Arg(kwargs, "description").v ELSE @,
        !.priority =
            IF Arg(kwargs, "priority") # None THEN Arg(kwargs, "priority").v ELSE @,
        !.due_date = IF Arg(kwargs, "due_date") # None THEN Arg(kwargs, "due_date") ELSE @,
        !.status = IF Arg(kwargs, "status") # None THEN Arg(kwargs, "status").v ELSE @,
        !.tags = IF Arg(kwargs, "tags") # None THEN Arg(kwargs, "tags").v ELSE @,
        !.updated_at = now])

\* Task.to_dict
to_dict(t) ==
    [id |-> t.id,
     title |-> t.title,
     description |-> t.description,
     priority |-> PriorityNames[t.priority],
     due_date |-> IF Truthy(t.due_date) THEN Str(isoformat(t.due_date.v)) ELSE None,
     status |-> StatusNames[t.status],
     tags |-> t.tags,
     created_at |-> isoformat(t.created_at),
     updated_at |-> isoformat(t.updated_at)]

\* data.get(k)
DictGet(data, k) == IF k \in DOMAIN data THEN data[k] ELSE None

\* Task.from_dict(data) at time now: the due date is parsed first, then the
\* arguments of cls(...) are evaluated in the order written
from_dict(data, now, uuid) ==
    LET due == IF Truthy(DictGet(data, "due_date"))
               THEN fromisoformat(data["due_date"].v)
               ELSE Ok(None)
    IN  IF ~due.ok THEN due
        ELSE IF "title" \notin DOMAIN data \/ "description" \notin DOMAIN data
                \/ "priority" \notin DOMAIN data
             THEN Raise("KeyError")
        ELSE IF ~EnumByName(PriorityNames, data["priority"]).ok THEN Raise("KeyError")
        ELSE IF "status" \notin DOMAIN data THEN Raise("KeyError")
        ELSE IF ~EnumByName(StatusNames, data["status"]).ok THEN Raise("KeyError")
        ELSE IF "tags" \notin DOMAIN data \/ "id" \notin DOMAIN data
             THEN Raise("KeyError")
        ELSE Ok(TaskInit(data["title"], data["description"],
                         EnumByName(PriorityNames, data["priority"]).v, due.v,
                         EnumByName(StatusNames, data["status"]).v,
                         PyList(data["tags"]), Str(data["id"]), now, uuid))

----------------------------------------------------------------------------
(* class TaskManager: the dict self.tasks *)

Keys(d) == {d[i].key : i \in DOMAIN d}
IndexOf(d, k) == CHOOSE i \in DOMAIN d : d[i].key = k

\* d[k]
Lookup(d, k) == d[IndexOf(d, k)].task

\* d[k] = t: a new key goes last, an existing key keeps its place
DictSet(d, k, t) ==
    IF k \in Keys(d)
    THEN [d EXCEPT ![IndexOf(d, k)] = [key |-> k, task |-> t]]
    ELSE Append(d, [key |-> k, task |-> t])

\* del d[k] as it would be if it dropped the entry of k and every later one
DictDelFrom(d, k) ==
    LET i == IndexOf(d, k)
    IN  [j \in 1..(i - 1) |-> d[j]]

\* del d[k]
DictDel(d, k) ==
    LET i == IndexOf(d, k)
    IN  [j \in 1..(Len(d) - 1) |-> IF j < i THEN d[j] ELSE d[j + 1]]

\* list(d.values())
Values(d) == [i \in DOMAIN d |-> d[i].task]

----------------------------------------------------------------------------
(* The backing file: absent, or its content as json.load reads it *)

FileAbsent == [exists |-> FALSE]
FileOf(content) == [exists |-> TRUE, content |-> content]
NotJson == [json |-> "invalid"]
JsonArray == [json |-> "array"]
JsonObject == [json |-> "object"]
JsonTasks(recs) == [json |-> "object", tasks |-> recs]

\* what TaskManager.save_tasks writes
SaveImage(d) == FileOf(JsonTasks([i \in DOMAIN d |-> to_dict(d[i].task)]))

\* TaskManager.get_task
get_task(d, task_id) == IF task_id \in Keys(d) THEN Lookup(d, task_id) ELSE None

\* the first unused value of uuid.uuid4()
FreshUuid(used) == CHOOSE u \in Uuids \ used : TRUE

\* the dict comprehension of load_tasks over the records from the i-th on:
\* the key task_data["id"] is evaluated before Task.from_dict(task_data)
RECURSIVE LoadRecords(_, _, _, _, _)
LoadRecords(recs, i, acc, used, now) ==
    IF i > Len(recs) THEN [ok |-> TRUE, tasks |-> acc, uuids |-> used]
    ELSE IF "id" \notin DOMAIN recs[i] THEN [ok |-> FALSE, exc |-> "KeyError", uuids |-> used]
    ELSE LET data == recs[i]
             r == from_dict(data, now, FreshUuid(used))
         IN  IF ~r.ok THEN [ok |-> FALSE, exc |-> r.exc, uuids |-> used]
             ELSE LoadRecords(recs, i + 1, DictSet(acc, data["id"], r.v),
                              IF NeedsUuid(Str(data["id"])) THEN used \cup {FreshUuid(used)}
                              ELSE used,
                              now)

\* the exceptions load_tasks catches
LoadCaught == {"JSONDecodeError", "KeyError"}

\* TaskManager.load_tasks: the dict afterwards and the exception that leaves
\* it, "" when none does
load_tasks(f, used, now) ==
    IF ~f.exists THEN [tasks |-> <<>>, exc |-> "", uuids |-> used]
    ELSE LET r == CASE f.content.json = "invalid" ->
                       [ok |-> FALSE, exc |-> "JSONDecodeError", uuids |-> used]
                    [] f.content.json = "array" ->
                       [ok |-> FALSE, exc |-> "AttributeError", uuids |-> used]
                    [] OTHER ->
                       LoadRecords(IF "tasks" \in DOMAIN f.content
                                   THEN f.content.tasks ELSE <<>>,
                                   1, <<>>, used, now)
         IN  IF r.ok THEN [tasks |-> r.tasks, exc |-> "", uuids |-> r.uuids]
             ELSE IF r.exc \in LoadCaught
                  THEN [tasks |-> <<>>, exc |-> "", uuids |-> r.uuids]
             ELSE [tasks |-> <<>>, exc |-> r.exc, uuids |-> r.uuids]

\* the conversion as it would be if a string that does not convert were
\* dropped from the keyword arguments and nothing raised
CoerceSkipping(kwargs) ==
    LET p == IF "priority" \in DOMAIN kwargs /\ kwargs["priority"].py = "str"
             THEN EnumByName(PriorityNames, kwargs["priority"].v) ELSE Ok(0)
        s == IF "status" \in DOMAIN kwargs /\ kwargs["status"].py = "str"
             THEN EnumByName(StatusNames, kwargs["status"].v) ELSE Ok(0)
        d == IF "due_date" \in DOMAIN kwargs /\ kwargs["due_date"].py = "str"
             THEN fromisoformat(kwargs["due_date"].v) ELSE Ok(None)
        kept == {k \in DOMAIN kwargs :
                    /\ k = "priority" => p.ok
                    /\ k = "status" => s.ok
                    /\ k = "due_date" => d.ok}
    IN  Ok([k \in kept |->
            IF k = "priority" /\ kwargs[k].py = "str" THEN PriorityMember(p.v)
            ELSE IF k = "status" /\ kwargs[k].py = "str" THEN StatusMember(s.v)
            ELSE IF k = "due_date" /\ kwargs[k].py = "str" THEN d.v
            ELSE kwargs[k]])

\* the string-to-value conversions of update_task, in the order written
Coerce(kwargs) ==
    LET p == IF "priority" \in DOMAIN kwargs /\ kwargs["priority"].py = "str"
             THEN EnumByName(PriorityNames, kwargs["priority"].v) ELSE Ok(0)
        s == IF "status" \in DOMAIN kwargs /\ kwargs["status"].py = "str"
             THEN EnumByName(StatusNames, kwargs["status"].v) ELSE Ok(0)
        d == IF "due_date" \in DOMAIN kwargs /\ kwargs["due_date"].py = "str"
             THEN fromisoformat(kwargs["due_date"].v) ELSE Ok(None)
    IN  IF ~p.ok THEN p
        ELSE IF ~s.ok THEN s
        ELSE IF ~d.ok THEN d
        ELSE Ok([k \in DOMAIN kwargs |->
                 IF k = "priority" /\ kwargs[k].py = "str" THEN PriorityMember(p.v)
                 ELSE IF k = "status" /\ kwargs[k].py = "str" THEN StatusMember(s.v)
                 ELSE IF k = "due_date" /\ kwargs[k].py = "str" THEN d.v
                 ELSE kwargs[k]])

Bool(b) == [py |-> "bool", v |-> b]

\* update_task as it would be if it converted the strings before looking
\* the task up
update_task_convert_first(d, task_id, kwargs, now) ==
    LET c == Coerce(kwargs)
        u == TaskUpdate(Lookup(d, task_id), c.v, now)
    IN  IF ~c.ok THEN [result |-> None, exc |-> c.exc, tasks |-> d, wrote |-> FALSE]
        ELSE IF get_task(d, task_id) = None
             THEN [result |-> Bool(FALSE), exc |-> "", tasks |-> d, wrote |-> FALSE]
        ELSE IF ~u.ok THEN [result |-> None, exc |-> u.exc, tasks |-> d, wrote |-> FALSE]
        ELSE [result |-> Bool(TRUE), exc |-> "",
              tasks |-> [d EXCEPT ![IndexOf(d, task_id)].task = u.v],
              wrote |-> TRUE]

\* TaskManager.update_task: what it returns or raises, the dict afterwards
\* and whether save_tasks ran
update_task(d, task_id, kwargs, now) ==
    IF get_task(d, task_id) = None
    THEN [result |-> Bool(FALSE), exc |-> "", tasks |-> d, wrote |-> FALSE]
    ELSE LET c == Coerce(kwargs)
             u == TaskUpdate(Lookup(d, task_id), c.v, now)
         IN  IF ~c.ok THEN [result |-> None, exc |-> c.exc, tasks |-> d, wrote |-> FALSE]
             ELSE IF ~u.ok THEN [result |-> None, exc |-> u.exc, tasks |-> d, wrote |-> FALSE]
             ELSE [result |-> Bool(TRUE), exc |-> "",
                   tasks |-> [d EXCEPT ![IndexOf(d, task_id)].task = u.v],
                   wrote |-> TRUE]

\* TaskManager.add_task
add_task(d, t) == DictSet(d, t.id, t)

\* TaskManager.delete_task
delete_task(d, task_id) ==
    IF task_id \notin Keys(d)
    THEN [result |-> Bool(FALSE), tasks |-> d, wrote |-> FALSE]
    ELSE [result |-> Bool(TRUE), tasks |-> DictDel(d, task_id), wrote |-> TRUE]

\* sorted as it would be if reverse were done by reversing the ascending
\* result: the elements of an equal key come out in the opposite order
sortedThenReversed(seq, keys, reverse) ==
    LET n == Len(seq)
        Before(j, i) ==
            IF keys[j] = keys[i] THEN IF reverse THEN j > i ELSE j < i
            ELSE IF reverse THEN keys[j] > keys[i]
            ELSE keys[j] < keys[i]
        Rank(i) == Cardinality({j \in 1..n : Before(j, i)})
    IN  [p \in 1..n |-> seq[CHOOSE i \in 1..n : Rank(i) = p - 1]]

\* sorted(seq, key=..., reverse=reverse), keys[i] being the key of seq[i]:
\* Python's sort is stable, with reverse too, so an element goes after those
\* of a key that sorts before its own and after the earlier ones of an equal
\* key
sorted(seq, keys, reverse) ==
    LET n == Len(seq)
        Before(j, i) ==
            IF keys[j] = keys[i] THEN j < i
            ELSE IF reverse THEN keys[j] > keys[i]
            ELSE keys[j] < keys[i]
        Rank(i) == Cardinality({j \in 1..n : Before(j, i)})
    IN  [p \in 1..n |-> seq[CHOOSE i \in 1..n : Rank(i) = p - 1]]

\* key=lambda t: t.due_date or datetime.datetime.max
DueKey(t) == IF Truthy(t.due_date) THEN t.due_date.v ELSE DateTimeMax

\* key=lambda t: t.priority.value
PriorityKey(t) == t.priority

\* x in xs, for a list xs
InList(x, xs) == \E i \in DOMAIN xs : xs[i] = x

\* TaskManager.list_tasks
list_tasks(d, status, priority, tag) ==
    LET HasStatus(t) == t.status = status.v
        HasPriority(t) == t.priority = priority.v
        HasTag(t) == InList(tag.v, t.tags)
        all == Values(d)
        byStatus == IF Truthy(status) THEN SelectSeq(all, HasStatus) ELSE all
        byPriority ==
            IF Truthy(priority) THEN SelectSeq(byStatus, HasPriority) ELSE byStatus
        byTag == IF Truthy(tag) THEN SelectSeq(byPriority, HasTag) ELSE byPriority
        byDue == sorted(byTag, [i \in DOMAIN byTag |-> DueKey(byTag[i])], FALSE)
    IN  sorted(byDue, [i \in DOMAIN byDue |-> PriorityKey(byDue[i])], TRUE)

----------------------------------------------------------------------------
(* Inputs *)

\* a record as save_tasks writes it, of a task created at time 0
GoodRecord(id, title) ==
    to_dict(TaskInit(title, "", 2, None, 1, None, Str(id), 0, id))

Without(rec, k) == [x \in DOMAIN rec \ {k} |-> rec[x]]

\* contents of tasks.json when the program starts
InitialFiles ==
    { FileAbsent,
      FileOf(NotJson),
      FileOf(JsonArray),
      FileOf(JsonObject),
      FileOf(JsonTasks(<<>>)),
      FileOf(JsonTasks(<<GoodRecord("k1", "a")>>)),
      FileOf(JsonTasks(<<[GoodRecord("k1", "a") EXCEPT !.due_date = Str(isoformat(1))]>>)),
      FileOf(JsonTasks(<<GoodRecord("k1", "a"), Without(GoodRecord("k2", "a"), "title")>>)),
      FileOf(JsonTasks(<<Without(GoodRecord("k1", "a"), "id")>>)),
      FileOf(JsonTasks(<<Without(GoodRecord("k1", "a"), "due_date")>>)),
      FileOf(JsonTasks(<<[GoodRecord("k1", "a") EXCEPT !.priority = "URGENT"]>>)),
      FileOf(JsonTasks(<<[GoodRecord("k1", "a") EXCEPT !.status = "DONE"]>>)),
      FileOf(JsonTasks(<<GoodRecord("k1", "a"),
                         [GoodRecord("k2", "a") EXCEPT !.due_date = Str("tomorrow")]>>)),
      FileOf(JsonTasks(<<[GoodRecord("k1", "a") EXCEPT !.due_date = Str("")]>>)),
      FileOf(JsonTasks(<<GoodRecord("", "a")>>)),
      FileOf(JsonTasks(<<GoodRecord("k1", "a"), GoodRecord("k1", "b")>>)) }

\* the tasks a caller constructs and adds
AddInputs ==
    { [title |-> "a", description |-> "", priority |-> 2, status |-> 1,
       due_date |-> dt[1], tags |-> dt[2], task_id |-> id] :
      dt \in {<<None, None>>, <<DateTime(1), PyList(<<"x">>)>>},
      id \in {None} \cup {Str(k) : k \in ExplicitIds} }

\* the keyword arguments a caller passes to update_task
UpdateInputs ==
    { <<>>,
      [title |-> Str("b"), description |-> Str("d"),
       priority |-> Str("HIGH"), status |-> Str("COMPLETED")],
      [title |-> Str("a"), description |-> Str(""),
       priority |-> PriorityMember(2), status |-> StatusMember(1)],
      [due_date |-> None],
      [due_date |-> DateTime(1), tags |-> PyList(<<"x">>)],
      [due_date |-> Str(isoformat(1)), tags |-> PyList(<<"x">>)],
      [color |-> Str("red")],
      [title |-> Str("b"), color |-> Str("red")],
      [title |-> Str("b"), priority |-> Str("URGENT")],
      [priority |-> Str("URGENT"), color |-> Str("red")],
      [status |-> Str("DONE")],
      [title |-> Str("b"), due_date |-> Str("tomorrow")] }

----------------------------------------------------------------------------
(* The store as a state machine *)

NoCall == [op |-> "none"]

Init ==
    /\ pc = "new"
    /\ clock = 1
    /\ uuids = {}
    /\ file \in InitialFiles
    /\ tasks = <<>>
    /\ ret = NoCall

\* the records of the file whose task would take its id from uuid.uuid4()
NeedUuid(f) ==
    IF f.exists /\ f.content.json = "object" /\ "tasks" \in DOMAIN f.content
    THEN {i \in DOMAIN f.content.tasks :
            "id" \in DOMAIN f.content.tasks[i] /\ f.content.tasks[i]["id"] = ""}
    ELSE {}

\* TaskManager.__init__
Initialize ==
    /\ pc = "new"
    /\ Cardinality(NeedUuid(file)) <= Cardinality(Uuids \ uuids)
    /\ LET r == load_tasks(file, uuids, clock)
       IN  /\ tasks' = r.tasks
           /\ uuids' = r.uuids
           /\ pc' = IF r.exc = "" THEN "ready" ELSE "crashed"
           /\ ret' = [op |-> "init", id |-> "", result |-> None, exc |-> r.exc,
                      wrote |-> FALSE]
    /\ UNCHANGED <<clock, file>>

\* Task(...) followed by TaskManager.add_task, as TodoApp._handle_add does
Add(in) ==
    /\ pc = "ready"
    /\ NeedsUuid(in.task_id) => Uuids \ uuids # {}
    /\ LET t == TaskInit(in.title, in.description, in.priority, in.due_date,
                         in.status, in.tags, in.task_id, clock, FreshUuid(uuids))
       IN  /\ tasks' = add_task(tasks, t)
           /\ uuids' = IF NeedsUuid(in.task_id) THEN uuids \cup {t.id} ELSE uuids
           /\ ret' = [op |-> "add", id |-> t.id, result |-> Str(t.id), exc |-> "",
                      wrote |-> TRUE]
    /\ file' = SaveImage(tasks')
    /\ UNCHANGED <<pc, clock>>

\* TaskManager.get_task
Get(task_id) ==
    /\ pc = "ready"
    /\ ret' = [op |-> "get", id |-> task_id, result |-> get_task(tasks, task_id),
               exc |-> "", wrote |-> FALSE]
    /\ UNCHANGED <<pc, clock, uuids, file, tasks>>

\* TaskManager.update_task
Update(task_id, kwargs) ==
    /\ pc = "ready"
    /\ LET r == update_task(tasks, task_id, kwargs, clock)
       IN  /\ tasks' = r.tasks
           /\ file' = IF r.wrote THEN SaveImage(r.tasks) ELSE file
           /\ ret' = [op |-> "update", id |-> task_id, result |-> r.result,
                      exc |-> r.exc, wrote |-> r.wrote]
    /\ UNCHANGED <<pc, clock, uuids>>

\* TaskManager.delete_task
Delete(task_id) ==
    /\ pc = "ready"
    /\ LET r == delete_task(tasks, task_id)
       IN  /\ tasks' = r.tasks
           /\ file' = IF r.wrote THEN SaveImage(r.tasks) ELSE file
           /\ ret' = [op |-> "delete", id |-> task_id, result |-> r.result,
                      exc |-> "", wrote |-> r.wrote]
    /\ UNCHANGED <<pc, clock, uuids>>

\* time passes
Tick ==
    /\ pc \in {"new", "ready"}
    /\ clock < MaxClock
    /\ clock' = clock + 1
    /\ UNCHANGED <<pc, uuids, file, tasks, ret>>

\* the process ends and the program is started again on the same file
Restart ==
    /\ pc = "ready"
    /\ pc' = "new"
    /\ tasks' = <<>>
    /\ ret' = NoCall
    /\ UNCHANGED <<clock, uuids, file>>

DoAdd == \E in \in AddInputs : Add(in)
DoGet == \E id \in QueryIds : Get(id)
DoUpdate == \E id \in QueryIds, kwargs \in UpdateInputs : Update(id, kwargs)
DoDelete == \E id \in QueryIds : Delete(id)

Next ==
    \/ Initialize
    \/ DoAdd
    \/ DoGet
    \/ DoUpdate
    \/ DoDelete
    \/ Tick
    \/ Restart

Spec == Init /\ [][Next]_vars

TypeOK ==
    /\ pc \in {"new", "ready", "crashed"}
    /\ clock \in 1..MaxClock

----------------------------------------------------------------------------
(* Serialization round trip: Task.to_dict, then Task.from_dict *)

\* the tasks Task.__init__ and Task.update can have produced by time now
ValidTasks(now) ==
    { [id |-> id, title |-> ti, description |-> de, priority |-> pr,
       due_date |-> du, status |-> st, tags |-> tg,
       created_at |-> ts[1], updated_at |-> ts[2]] :
      id \in Uuids \cup ExplicitIds, ti \in {"a"}, de \in {"", "d"},
      pr \in Priorities, du \in {None, DateTime(1), DateTime(DateTimeMax)},
      st \in Statuses, tg \in {<<>>, <<"x">>, <<"", "x">>},
      ts \in {x \in (1..now) \X (1..now) : x[1] <= x[2]} }

InitRoundTrip ==
    /\ pc = "task"
    /\ clock \in 1..MaxClock
    /\ uuids = {}
    /\ file = FileAbsent
    /\ tasks \in {<<[key |-> t.id, task |-> t]>> : t \in ValidTasks(clock)}
    /\ ret = NoCall

\* t.to_dict()
Serialize ==
    /\ pc = "task"
    /\ pc' = "dict"
    /\ ret' = [op |-> "to_dict", result |-> to_dict(tasks[1].task)]
    /\ UNCHANGED <<clock, uuids, file, tasks>>

\* Task.from_dict(data) of the dict just made
Deserialize ==
    /\ pc = "dict"
    /\ pc' = "done"
    /\ ret' = [op |-> "from_dict",
               result |-> from_dict(ret.result, clock, FreshUuid(uuids))]
    /\ UNCHANGED <<clock, uuids, file, tasks>>

NextRoundTrip ==
    \/ Serialize
    \/ Deserialize

SpecRoundTrip == InitRoundTrip /\ [][NextRoundTrip]_vars

\* C1: Task.from_dict(t.to_dict()) is a Task equal to t in every field,
\* id, due_date, created_at and updated_at included.
RoundTripEqual ==
    (pc = "done" /\ ret.op = "from_dict") =>
        (ret.result.ok /\ ret.result.v = tasks[1].task)

\* what the round trip does keep: every field but the two timestamps, which
\* Task.__init__ sets to the time of the call
RoundTripButTimestamps ==
    (pc = "done" /\ ret.op = "from_dict") =>
        /\ ret.result.ok
        /\ ret.result.v = [tasks[1].task EXCEPT !.created_at = clock, !.updated_at = clock]

----------------------------------------------------------------------------
(* Listing: TaskManager.list_tasks over stores drawn from bounded sets *)

\* the stores whose order is examined hold at most MaxListed tasks
MaxListed == 2

\* status and priority of the stored tasks: every status and every priority
StatusPriorityPairs == {<<s, p>> : s \in Statuses, p \in Priorities}

\* tasks that differ in what the filters read, tasks that differ in what the
\* sort reads
FilterShapes ==
    { [status |-> sp[1], priority |-> sp[2], tags |-> tg, due_date |-> None] :
      sp \in {x \in StatusPriorityPairs : x[2] = x[1] \/ x[2] = 5 - x[1]},
      tg \in {<<>>, <<"">>, <<"x", "y">>} }
SortShapes ==
    { [status |-> 1, priority |-> p, tags |-> <<"x">>, due_date |-> d] :
      p \in Priorities,
      d \in {None, DateTime(1), DateTime(DateTimeMax)} }

\* the dict whose i-th entry is a task of shape shapes[i], added at time 1
StoreOf(shapes) ==
    [i \in DOMAIN shapes |->
        LET id == "t" \o ToString(i)
        IN  [key |-> id,
             task |-> TaskInit("a", "", shapes[i].priority, shapes[i].due_date,
                               shapes[i].status, PyList(shapes[i].tags), Str(id), 1, id)]]

\* a filter keeps or drops each task by itself: one or two tasks; the sort
\* places them relative to each other: up to MaxListed tasks
ListedStores ==
    UNION ({ {StoreOf(f) : f \in [1..n -> FilterShapes]} : n \in {1, 2} }
           \cup { {StoreOf(f) : f \in [1..n -> SortShapes]} : n \in 0..MaxListed })

\* the arguments of list_tasks
StatusArgs == {None} \cup {StatusMember(n) : n \in Statuses}
PriorityArgs == {None} \cup {PriorityMember(n) : n \in Priorities}
TagArgs == {None, Str(""), Str("x")}

InitList ==
    /\ pc = "list"
    /\ clock = 1
    /\ uuids = {}
    /\ tasks \in ListedStores
    /\ file = SaveImage(tasks)
    /\ ret = NoCall

\* TaskManager.list_tasks, the one command of a run of the program
List(status, priority, tag) ==
    /\ pc = "list"
    /\ pc' = "done"
    /\ ret' = [op |-> "list", status |-> status, priority |-> priority, tag |-> tag,
               result |-> list_tasks(tasks, status, priority, tag)]
    /\ UNCHANGED <<clock, uuids, file, tasks>>

NextList ==
    \E status \in StatusArgs, priority \in PriorityArgs, tag \in TagArgs :
        List(status, priority, tag)

SpecList == InitList /\ [][NextList]_vars

\* t satisfies every criterion that is not None
Matches(t, status, priority, tag) ==
    /\ status # None => t.status = status.v
    /\ priority # None => t.priority = priority.v
    /\ tag # None => \E i \in DOMAIN t.tags : t.tags[i] = tag.v

\* the tasks of seq, a sequence of tasks
TasksOf(seq) == {seq[i] : i \in DOMAIN seq}

\* where the task of id is in the dict
PlaceOf(id) == CHOOSE i \in DOMAIN tasks : tasks[i].key = id

\* C5: list_tasks returns exactly the stored tasks that satisfy every
\* criterion that is not None: status equal, priority equal, the tag one of
\* the task's tags, the empty string included.
FilterExact ==
    ret.op = "list" =>
        TasksOf(ret.result) =
            {t \in TasksOf(Values(tasks)) : Matches(t, ret.status, ret.priority, ret.tag)}

\* what does hold of the filters: exact for every query but the empty tag
FilterExactButEmptyTag ==
    (ret.op = "list" /\ ret.tag # Str("")) =>
        TasksOf(ret.result) =
            {t \in TasksOf(Values(tasks)) : Matches(t, ret.status, ret.priority, ret.tag)}

\* the result holds stored tasks, each once, and every stored task that
\* satisfies the criteria; unless the tag is the empty string, only those
ResultIsFiltered ==
    /\ TasksOf(ret.result) \subseteq TasksOf(Values(tasks))
    /\ \A i, j \in DOMAIN ret.result : ret.result[i].id = ret.result[j].id => i = j
    /\ \A t \in TasksOf(Values(tasks)) :
          Matches(t, ret.status, ret.priority, ret.tag) => t \in TasksOf(ret.result)
    /\ ret.tag # Str("") =>
          \A t \in TasksOf(ret.result) : Matches(t, ret.status, ret.priority, ret.tag)

\* C6 as stated: the result is a permutation of the filtered tasks, by
\* priority descending; within a priority by due date ascending, the tasks
\* without a due date after all those that have one; tasks equal on both in
\* the order of the dict.
SortedNoDueLast ==
    ret.op = "list" =>
        /\ ResultIsFiltered
        /\ \A i, j \in DOMAIN ret.result :
              i < j =>
                  LET a == ret.result[i]
                      b == ret.result[j]
                  IN  /\ a.priority >= b.priority
                      /\ a.priority = b.priority =>
                            /\ ~(a.due_date = None /\ b.due_date # None)
                            /\ (a.due_date # None /\ b.due_date # None) =>
                                  a.due_date.v <= b.due_date.v
                            /\ a.due_date = b.due_date => PlaceOf(a.id) < PlaceOf(b.id)

\* the due date a task is ordered by: its own, the largest datetime if none
OrderedAs(t) == IF t.due_date = None THEN DateTimeMax ELSE t.due_date.v

\* C6 as amended: the result is a permutation of the filtered tasks, by
\* priority descending; within a priority by due date ascending, a task
\* without a due date ordered as if due at the largest datetime; tasks equal
\* on both in the order of the dict.
SortedNoDueAsMax ==
    ret.op = "list" =>
        /\ ResultIsFiltered
        /\ \A i, j \in DOMAIN ret.result :
              i < j =>
                  LET a == ret.result[i]
                      b == ret.result[j]
                  IN  /\ a.priority >= b.priority
                      /\ a.priority = b.priority => OrderedAs(a) <= OrderedAs(b)
                      /\ (a.priority = b.priority /\ OrderedAs(a) = OrderedAs(b)) =>
                            PlaceOf(a.id) < PlaceOf(b.id)

\* a listing of two tasks of one priority where the one without a due date
\* comes before, as in the dict, the one due at the largest datetime
NoDueBeforeMaxListed ==
    /\ ret.op = "list"
    /\ \E i, j \in DOMAIN ret.result :
          /\ i < j
          /\ ret.result[i].priority = ret.result[j].priority
          /\ ret.result[i].due_date = None
          /\ ret.result[j].due_date = DateTime(DateTimeMax)

----------------------------------------------------------------------------
(* Properties of the store *)

Present(id) == id \in Keys(tasks)
Absent(id) == id \notin Keys(tasks)

\* the step is a call of op on id: the calls are the steps that leave the
\* clock alone, and each sets ret to its name and argument
Calls(op, id) == clock' = clock /\ ret'.op = op /\ ret'.id = id

\* C2: on a stored task that has a due date, update_task(id, due_date=None)
\* returns True and leaves the task without a due date, and an update that
\* passes no due_date leaves the due date as it was.
DueDateNoneClears ==
    [][\A id \in QueryIds :
        (Calls("update", id) /\ Present(id) /\ Lookup(tasks, id).due_date # None) =>
            /\ Update(id, [due_date |-> None]) =>
                  /\ ret'.result = Bool(TRUE)
                  /\ Lookup(tasks', id).due_date = None
            /\ \A kwargs \in UpdateInputs :
                  ("due_date" \notin DOMAIN kwargs /\ Update(id, kwargs)) =>
                      Lookup(tasks', id).due_date = Lookup(tasks, id).due_date]_vars

\* the keys Task.from_dict reads with data[...]
RequiredKeys == {"id", "title", "description", "priority", "status", "tags"}

Names(names) == {names[n] : n \in DOMAIN names}

\* a record with every required key, enum names that exist and a due date
\* that is absent, null, empty or ISO-8601 text
RecordParses(rec) ==
    /\ RequiredKeys \subseteq DOMAIN rec
    /\ rec["priority"] \in Names(PriorityNames)
    /\ rec["status"] \in Names(StatusNames)
    /\ \/ "due_date" \notin DOMAIN rec
       \/ rec["due_date"] = None
       \/ rec["due_date"] = Str("")
       \/ rec["due_date"] \in {Str(isoformat(n)) : n \in DateTimes}

\* a file that holds the expected structure: an object whose "tasks", if
\* any, are records that parse
FileParses(f) ==
    /\ f.exists
    /\ f.content.json = "object"
    /\ "tasks" \in DOMAIN f.content =>
          \A i \in DOMAIN f.content.tasks : RecordParses(f.content.tasks[i])

\* C3: TaskManager() on an existing file never raises and ends with a
\* store; when the file or one of its records does not parse, the store is
\* empty.
CorruptStoreRecovery ==
    (ret.op = "init" /\ file.exists) =>
        /\ ret.exc = ""
        /\ pc = "ready"
        /\ ~FileParses(file) => tasks = <<>>

\* C4: get_task, update_task (with any keyword arguments) and delete_task of
\* an id that is not a key return None, False and False, raise nothing,
\* leave the dict as it is and do not write the file.
MissingIdNoEffect ==
    [][\A id \in QueryIds :
        Absent(id) =>
            /\ Calls("get", id) => ret'.result = None
            /\ Calls("update", id) => ret'.result = Bool(FALSE)
            /\ Calls("delete", id) => ret'.result = Bool(FALSE)
            /\ (Calls("get", id) \/ Calls("update", id) \/ Calls("delete", id)) =>
                  /\ ret'.exc = ""
                  /\ tasks' = tasks
                  /\ file' = file
                  /\ ~ret'.wrote]_vars

\* an update with a malformed value of an id deleted before found nothing
MissingIdReached ==
    /\ pc = "ready"
    /\ ret.op = "update"
    /\ ret.result = Bool(FALSE)
    /\ ~ret.wrote
    /\ tasks # <<>>
    /\ Absent("u1") /\ "u1" \in uuids

\* a file as save_tasks writes it: records of the nine keys, with enum
\* names, ISO-8601 times, and ids that are distinct and not empty
ToolWritten(f) ==
    /\ f.exists
    /\ f.content.json = "object"
    /\ "tasks" \in DOMAIN f.content
    /\ LET recs == f.content.tasks
           IsoTexts == {isoformat(n) : n \in DateTimes}
       IN  /\ \A i \in DOMAIN recs :
                 /\ DOMAIN recs[i] = RequiredKeys \cup {"due_date", "created_at", "updated_at"}
                 /\ recs[i]["id"] # ""
                 /\ recs[i]["priority"] \in Names(PriorityNames)
                 /\ recs[i]["status"] \in Names(StatusNames)
                 /\ recs[i]["due_date"] \in {None} \cup {Str(x) : x \in IsoTexts}
                 /\ recs[i]["created_at"] \in IsoTexts
                 /\ recs[i]["updated_at"] \in IsoTexts
           /\ \A i, j \in DOMAIN recs : recs[i]["id"] = recs[j]["id"] => i = j

\* C7: the file and the dict describe the same tasks with the same field
\* values after any sequence of store operations: the file holds one
\* serialized record per task of the dict, in the dict's order.
FileMatchesStore ==
    (pc = "ready" /\ ToolWritten(file)) => file = SaveImage(tasks)

\* the write-through half of C7: when add_task, update_task or delete_task
\* has written, the file is the image of the dict
WriteThrough ==
    (pc = "ready" /\ ret.op \in {"add", "update", "delete"} /\ ret.wrote) =>
        file = SaveImage(tasks)

\* keyword arguments whose string values update_task can convert
WellFormedValues(kwargs) ==
    /\ ("priority" \in DOMAIN kwargs /\ kwargs["priority"].py = "str") =>
          kwargs["priority"].v \in Names(PriorityNames)
    /\ ("status" \in DOMAIN kwargs /\ kwargs["status"].py = "str") =>
          kwargs["status"].v \in Names(StatusNames)
    /\ ("due_date" \in DOMAIN kwargs /\ kwargs["due_date"].py = "str") =>
          kwargs["due_date"].v \in {isoformat(n) : n \in DateTimes}

\* the field names of the partial update
FieldNames == {"title", "description", "priority", "due_date", "status", "tags"}

\* the partial updates that name a field that is not one of the six
UnknownFieldInputs == {kwargs \in UpdateInputs : ~(DOMAIN kwargs \subseteq FieldNames)}

\* C8 as stated: update_task of an existing id with a field name that is
\* not one of the six returns True, applies the recognized fields, writes
\* the file, and raises nothing.
UnknownFieldIgnored ==
    [][\A id \in QueryIds, kwargs \in UnknownFieldInputs :
        (Calls("update", id) /\ Present(id) /\ WellFormedValues(kwargs)
            /\ Update(id, kwargs)) =>
            /\ ret'.result = Bool(TRUE)
            /\ ret'.exc = ""
            /\ ret'.wrote
            /\ "title" \in DOMAIN kwargs => Lookup(tasks', id).title = kwargs["title"].v]_vars

\* C8 as amended: update_task of an existing id with a field name that is
\* not one of the six raises (TypeError when the recognized values are well
\* formed), applies no field, leaves updated_at alone and writes nothing.
UnknownFieldRaises ==
    [][\A id \in QueryIds, kwargs \in UnknownFieldInputs :
        (Calls("update", id) /\ Present(id) /\ Update(id, kwargs)) =>
            /\ ret'.exc \in {"TypeError", "KeyError", "ValueError"}
            /\ WellFormedValues(kwargs) => ret'.exc = "TypeError"
            /\ ret'.result = None
            /\ tasks' = tasks
            /\ file' = file
            /\ ~ret'.wrote]_vars

\* an update with an unknown field name has raised TypeError on a stored task
UnknownFieldReached ==
    /\ pc = "ready"
    /\ ret.op = "update"
    /\ ret.exc = "TypeError"
    /\ tasks # <<>>

\* C9: add_task(t) returns t.id and stores t under it, in place of any task
\* stored under that id before, so that get_task(t.id) is t; every task of
\* the dict is stored under its own id; and no update changes an id.
IdStability ==
    [][/\ \A in \in AddInputs :
            (ret'.op = "add" /\ Add(in)) =>
                LET t == TaskInit(in.title, in.description, in.priority, in.due_date,
                                  in.status, in.tags, in.task_id, clock, FreshUuid(uuids))
                IN  /\ ret'.result = Str(t.id)
                    /\ get_task(tasks', t.id) = t
                    /\ Cardinality({i \in DOMAIN tasks' : tasks'[i].key = t.id}) = 1
       /\ \A i \in DOMAIN tasks' : tasks'[i].key = tasks'[i].task.id
       /\ \A id \in QueryIds, kwargs \in UpdateInputs :
            (Calls("update", id) /\ Present(id) /\ Update(id, kwargs)) =>
                /\ Keys(tasks') = Keys(tasks)
                /\ Lookup(tasks', id).id = Lookup(tasks, id).id]_vars

\* the part of C9 that is about add_task and update_task alone
IdStableUnderAddUpdate ==
    [][/\ \A in \in AddInputs :
            (ret'.op = "add" /\ Add(in)) =>
                LET t == TaskInit(in.title, in.description, in.priority, in.due_date,
                                  in.status, in.tags, in.task_id, clock, FreshUuid(uuids))
                IN  /\ ret'.result = Str(t.id)
                    /\ get_task(tasks', t.id) = t
                    /\ Cardinality({i \in DOMAIN tasks' : tasks'[i].key = t.id}) = 1
       /\ \A id \in QueryIds, kwargs \in UpdateInputs :
            (Calls("update", id) /\ Present(id) /\ Update(id, kwargs)) =>
                /\ Keys(tasks') = Keys(tasks)
                /\ Lookup(tasks', id).id = Lookup(tasks, id).id]_vars

\* C10: the clock never going back, a successful update_task sets the
\* task's updated_at to the current time, whatever it was passed, so not
\* below its value before, and leaves created_at; and created_at <=
\* updated_at in every task of every state.
TimestampMonotonic ==
    /\ [](\A i \in DOMAIN tasks :
            tasks[i].task.created_at <= tasks[i].task.updated_at)
    /\ [][/\ clock' >= clock
          /\ \A id \in QueryIds :
                (Calls("update", id) /\ ret'.result = Bool(TRUE)) =>
                    /\ Present(id)
                    /\ Lookup(tasks', id).updated_at = clock
                    /\ Lookup(tasks', id).updated_at >= Lookup(tasks, id).updated_at
                    /\ Lookup(tasks', id).created_at = Lookup(tasks, id).created_at]_vars

\* a successful update has moved a task's updated_at past its created_at
TimestampMoved ==
    /\ pc = "ready"
    /\ ret.op = "update"
    /\ ret.result = Bool(TRUE)
    /\ \E i \in DOMAIN tasks :
          /\ tasks[i].task.created_at < tasks[i].task.updated_at
          /\ tasks[i].task.updated_at = clock

\* the ids of the records of the file
FileIds(f) == {f.content.tasks[i]["id"] : i \in DOMAIN f.content.tasks}

\* C11: delete_task of an id that is a key returns True, removes that task
\* and no other, leaves every other task and its fields as they were, and
\* writes the file; a get_task of the id right after returns None and a
\* second delete_task of it returns False.
DeleteRemovesOne ==
    [][\A id \in QueryIds :
        /\ (Calls("delete", id) /\ Present(id)) =>
              /\ ret'.result = Bool(TRUE)
              /\ ret'.exc = ""
              /\ Keys(tasks') = Keys(tasks) \ {id}
              /\ Len(tasks') = Len(tasks) - 1
              /\ \A k \in Keys(tasks) \ {id} : Lookup(tasks', k) = Lookup(tasks, k)
              /\ \A a, b \in Keys(tasks) \ {id} :
                    IndexOf(tasks, a) < IndexOf(tasks, b) =>
                        IndexOf(tasks', a) < IndexOf(tasks', b)
              /\ ret'.wrote
              /\ file' = SaveImage(tasks')
              /\ id \notin FileIds(file')
        /\ (ret.op = "delete" /\ ret.id = id /\ ret.result = Bool(TRUE)) =>
              /\ Calls("get", id) => ret'.result = None
              /\ Calls("delete", id) =>
                    /\ ret'.result = Bool(FALSE)
                    /\ tasks' = tasks
                    /\ ~ret'.wrote]_vars

\* a delete has removed one task of a store and left another one
DeletedOneOfTwo ==
    /\ pc = "ready"
    /\ ret.op = "delete"
    /\ ret.result = Bool(TRUE)
    /\ ret.wrote
    /\ Absent(ret.id)
    /\ tasks # <<>>

\* the partial updates with a priority or status string that is no name of
\* the enumeration, or a due_date string that is not ISO-8601
MalformedInputs == {kwargs \in UpdateInputs : ~WellFormedValues(kwargs)}

\* the string of kwargs under name is not one of texts
BadString(kwargs, name, texts) ==
    /\ name \in DOMAIN kwargs
    /\ kwargs[name].py = "str"
    /\ kwargs[name].v \notin texts

\* C12: update_task of an existing id with a priority or status string that
\* is no enumeration name, or a due_date string that is not ISO-8601, raises
\* to the caller (KeyError for the names, ValueError for the date), changes
\* no field of the task, updated_at and the valid fields of the same call
\* included, and does not write the file.
FailedUpdateChangesNothing ==
    [][\A id \in QueryIds, kwargs \in MalformedInputs :
        (Calls("update", id) /\ Present(id) /\ Update(id, kwargs)) =>
            /\ ret'.exc =
                  IF \/ BadString(kwargs, "priority", Names(PriorityNames))
                     \/ BadString(kwargs, "status", Names(StatusNames))
                  THEN "KeyError" ELSE "ValueError"
            /\ ret'.result = None
            /\ Lookup(tasks', id) = Lookup(tasks, id)
            /\ tasks' = tasks
            /\ file' = file
            /\ ~ret'.wrote]_vars

\* an update with a malformed value has raised on a stored task, which has
\* its first title, at a time after the task was last written
FailedUpdateReached ==
    /\ pc = "ready"
    /\ ret.op = "update"
    /\ ret.exc \in {"KeyError", "ValueError"}
    /\ Present(ret.id)
    /\ Lookup(tasks, ret.id).title = "a"
    /\ Lookup(tasks, ret.id).updated_at < clock

====
